---- MODULE Spec2Model ----
(***************************************************************************)
(* Model of three decoders of arc_unpacker:                                *)
(*   - LndFileDecoder::decompress_raw_data   (fmt/kid/lnd_file_decoder.cc) *)
(*   - Xp3ArchiveDecoder::unpack_internal    (fmt/kirikiri/xp3_archive_..) *)
(*   - Xp3FilterFsn::decode                  (formats/arc/xp3_archive/..)  *)
(* Each decoder has its own specification (SpecLnd, SpecXp3, SpecFsn); the *)
(* variables of the other two decoders stay idle.                          *)
(***************************************************************************)
EXTENDS Integers, Sequences, FiniteSets, TLC

VARIABLES
    \* ---- LndFileDecoder::decompress_raw_data
    input,        \* const bstr &input, a sequence of bytes
    size_orig,    \* size_t size_orig
    output,       \* bstr output(size_orig), a function 0 .. size_orig-1 -> byte
    input_ptr,    \* input_ptr - input.get(), an index into input
    output_ptr,   \* output_ptr - output.get(), an index into output
    lnd_pc,       \* "idle" | "loop" | "done"
    max_read,     \* highest index of input dereferenced so far (-1: none)
    min_back,     \* lowest index of output dereferenced by a back-reference
    max_back,     \* highest index of output dereferenced by a back-reference
    max_write,    \* highest index of output written so far (-1: none)
    last,         \* the operation the last loop iteration decoded
    \* ---- Xp3ArchiveDecoder::unpack_internal
    arc,          \* File &arc_file: its bytes, its table and the decoder's filter
    arc_pos,      \* arc_file.io.tell()
    version,      \* int version (0: not detected yet)
    table_offset, \* u64 table_offset
    table_io,     \* the in-memory table, a sequence of entries (<<>>: not read)
    table_pos,    \* table_io->tell()
    pending,      \* what read_file returned and save has not been given yet
    saved,        \* the files the FileSaver was given, in call order
    filter_calls, \* the entries filter_func was called on, in call order
    attempted,    \* the entries read_file was entered on, in call order
    err,          \* the error thrown out of unpack_internal ("none": none)
    xp3_pc,       \* the statement of unpack_internal to run next
    \* ---- Xp3FilterFsn::decode
    file_size,    \* file.io.size()
    file_io,      \* the content of VirtualFile &file, at the offsets Watched
    file_pos,     \* file.io.tell()
    file_in,      \* the content decode was called on
    fsn_pc        \* "idle" | "decode" | "done"

lndVars == <<input, size_orig, output, input_ptr, output_ptr, lnd_pc,
             max_read, min_back, max_back, max_write, last>>

xp3Vars == <<arc, arc_pos, version, table_offset, table_io, table_pos,
             pending, saved, filter_calls, attempted, err, xp3_pc>>

fsnVars == <<file_size, file_io, file_pos, file_in, fsn_pc>>

vars == <<lndVars, xp3Vars, fsnVars>>

\* ------------------------------------------------------------------ bounds

\* Longest input of the LND decompressor.
MaxInputLen == 5

\* Largest size_orig of the LND decompressor.
MaxSizeOrig == 6

\* Most entries in an XP3 table.
MaxEntries == 2

\* Bytes of entry data stored in an XP3 archive, between its headers and its table.
BodyLen == 4

\* ------------------------------------------------------------ byte helpers

Max(a, b) == IF a >= b THEN a ELSE b

Min(a, b) == IF a <= b THEN a ELSE b

RECURSIVE BitAnd(_, _)
\* x & y on naturals.
BitAnd(x, y) ==
    IF x = 0 \/ y = 0 THEN 0
    ELSE (IF x % 2 = 1 /\ y % 2 = 1 THEN 1 ELSE 0) + 2 * BitAnd(x \div 2, y \div 2)

RECURSIVE BitXor(_, _)
\* x ^ y on naturals.
BitXor(x, y) ==
    IF x = 0 THEN y
    ELSE IF y = 0 THEN x
    ELSE (IF x % 2 = y % 2 THEN 0 ELSE 1) + 2 * BitXor(x \div 2, y \div 2)

\* x << n and x >> n on naturals.
Shl(x, n) == x * (2 ^ n)

Shr(x, n) == x \div (2 ^ n)

\* A u8 after an addition.
U8(x) == x % 256

\* -------------------------------------------------------------- LND inputs

\* The bytes inputs are made of: literal controls 0x00 (1 byte) and 0x01
\* (2 bytes), blend controls 0x41 'A' (block of 3) and 0x42 'B' (block of 4),
\* back-reference control 0x88 (length 4) and fill-run control 0xE0 (run of 2
\* plus an extension byte); each also serves as operand and as data.
LndBytes == {0, 1, 65, 66, 136, 224}

\* What a dereference outside a buffer may yield.
OobBytes == {0, 255}

RECURSIVE SeqsUpTo(_, _)
\* All sequences over S of length at most n.
SeqsUpTo(S, n) ==
    IF n = 0 THEN {<< >>}
    ELSE LET shorter == SeqsUpTo(S, n - 1)
         IN  shorter \cup {Append(s, b) : s \in {t \in shorter : Len(t) = n - 1}, b \in S}

\* -------------------------------------------------- LND pointer dereferences

\* *input_ptr at index i; past input_end the read is undefined behaviour and
\* yields junk.
RdIn(i, junk) == IF i < Len(input) THEN input[i + 1] ELSE junk

\* output_ptr[-look_behind] at index i; outside the buffer the read is
\* undefined behaviour and yields junk.
RdOut(out, i, junk) == IF i \in DOMAIN out THEN out[i] ELSE junk

\* *output_ptr = v at index i.
WrOut(out, i, v) ==
    [j \in (DOMAIN out) \cup {i} |-> IF j = i THEN v ELSE out[j]]

\* An output-full check that is one byte late.
OutputFullLate(m) == m.op > size_orig

\* if (output_ptr >= output_end) break;
OutputFull(m) == m.op >= size_orig

\* The decoder's registers during one loop iteration.
Regs ==
    [out |-> output, op |-> output_ptr, ip |-> input_ptr,
     mr |-> max_read, mb |-> min_back, xb |-> max_back, mw |-> max_write]

\* u8 x = *input_ptr++ : the byte read and the registers after it.
Fetch(m, junk) ==
    [val |-> RdIn(m.ip, junk),
     m   |-> [m EXCEPT !.ip = @ + 1, !.mr = Max(@, m.ip)]]

\* ------------------------------------------------------- LND: the four loops

RECURSIVE FillLoop(_, _, _, _)
\* for (auto i : util::range(repetitions)) { if (full) break;
\*     *output_ptr++ = *input_ptr; }
FillLoop(m, i, repetitions, junk) ==
    IF i >= repetitions \/ OutputFull(m) THEN m
    ELSE FillLoop([m EXCEPT !.out = WrOut(@, m.op, RdIn(m.ip, junk)),
                            !.op = @ + 1,
                            !.mr = Max(@, m.ip),
                            !.mw = Max(@, m.op)],
                  i + 1, repetitions, junk)

\* A fill-run that consumes one input byte per copy written.
FillOpAdvancePerCopy(m0, byte, junk) ==
    LET base == BitAnd(byte, 31) + 2
        ext  == IF BitAnd(byte, 32) # 0 THEN Fetch(m0, junk) ELSE [val |-> 0, m |-> m0]
        repetitions == base + Shl(ext.val, 5)
        m1 == FillLoop(ext.m, 0, repetitions, junk)
    IN  [m |-> [m1 EXCEPT !.ip = @ + (m1.op - m0.op)], arg |-> ext.val, q |-> ext.m.ip]

\* The fill-run branch: byte & 0x80 and byte & 0x40.
FillOp(m0, byte, junk) ==
    LET base == BitAnd(byte, 31) + 2
        ext  == IF BitAnd(byte, 32) # 0 THEN Fetch(m0, junk) ELSE [val |-> 0, m |-> m0]
        repetitions == base + Shl(ext.val, 5)
        m1 == FillLoop(ext.m, 0, repetitions, junk)
    IN  [m |-> [m1 EXCEPT !.ip = @ + 1], arg |-> ext.val, q |-> ext.m.ip]

RECURSIVE CopyLoop(_, _, _, _, _)
\* for (auto i : util::range(size)) { u8 tmp = output_ptr[-look_behind];
\*     if (full) break; *output_ptr++ = tmp; }
CopyLoop(m, i, size, look_behind, junk) ==
    IF i >= size THEN m
    ELSE LET src == m.op - look_behind
             tmp == RdOut(m.out, src, junk)
             m1  == [m EXCEPT !.mb = Min(@, src), !.xb = Max(@, src)]
         IN  IF OutputFull(m1) THEN m1
             ELSE CopyLoop([m1 EXCEPT !.out = WrOut(@, m.op, tmp),
                                      !.op = @ + 1,
                                      !.mw = Max(@, m.op)],
                           i + 1, size, look_behind, junk)

\* A distance without its bias of one.
LookBehindNoBias(byte, next) == Shl(BitAnd(byte, 3), 8) + next

\* int look_behind = ((byte & 3) << 8) + *input_ptr++ + 1;
\* if (look_behind < 0) look_behind = 0;
LookBehind(byte, next) ==
    LET look_behind == Shl(BitAnd(byte, 3), 8) + next + 1
    IN  IF look_behind < 0 THEN 0 ELSE look_behind

\* The back-reference branch: byte & 0x80 and not byte & 0x40.
CopyOp(m0, byte, junk) ==
    LET size == BitAnd(Shr(byte, 2), 15) + 2
        nxt  == Fetch(m0, junk)
        look_behind == LookBehind(byte, nxt.val)
    IN  [m |-> CopyLoop(nxt.m, 0, size, look_behind, junk),
         arg |-> nxt.val, q |-> nxt.m.ip]

RECURSIVE BlendInner(_, _, _, _)
\* for (auto i : util::range(size)) { if (full) break;
\*     *output_ptr++ += input_ptr[i]; }
BlendInner(m, i, size, junk) ==
    IF i >= size \/ OutputFull(m) THEN m
    ELSE BlendInner([m EXCEPT !.out = WrOut(@, m.op,
                                        U8(RdOut(@, m.op, junk) + RdIn(m.ip + i, junk))),
                              !.op = @ + 1,
                              !.mr = Max(@, m.ip + i),
                              !.mw = Max(@, m.op)],
                    i + 1, size, junk)

RECURSIVE BlendOuter(_, _, _, _, _)
\* for (auto i : util::range(repetitions)) <inner loop>
\* Once the output is full every remaining repetition leaves its inner loop at
\* the first break and changes nothing, so the recursion stops there.
BlendOuter(m, r, repetitions, size, junk) ==
    IF r >= repetitions \/ OutputFull(m) THEN m
    ELSE BlendOuter(BlendInner(m, 0, size, junk), r + 1, repetitions, size, junk)

\* A blend that consumes its window once per repeat.
BlendOpAdvancePerRepeat(m0, byte, junk) ==
    LET nxt  == Fetch(m0, junk)
        repetitions == nxt.val + 1
        size == BitAnd(byte, 63) + 2
        m1   == BlendOuter(nxt.m, 0, repetitions, size, junk)
    IN  [m |-> [m1 EXCEPT !.ip = @ + size * repetitions], arg |-> nxt.val,
         q |-> nxt.m.ip]

\* The additive-blend branch: not byte & 0x80 and byte & 0x40.
BlendOp(m0, byte, junk) ==
    LET nxt  == Fetch(m0, junk)
        repetitions == nxt.val + 1
        size == BitAnd(byte, 63) + 2
        m1   == BlendOuter(nxt.m, 0, repetitions, size, junk)
    IN  [m |-> [m1 EXCEPT !.ip = @ + size], arg |-> nxt.val, q |-> nxt.m.ip]

RECURSIVE LiteralLoop(_, _, _, _)
\* for (auto i : util::range(size)) { if (full) break;
\*     *output_ptr++ = *input_ptr++; }
LiteralLoop(m, i, size, junk) ==
    IF i >= size \/ OutputFull(m) THEN m
    ELSE LiteralLoop([m EXCEPT !.out = WrOut(@, m.op, RdIn(m.ip, junk)),
                               !.op = @ + 1,
                               !.ip = @ + 1,
                               !.mr = Max(@, m.ip),
                               !.mw = Max(@, m.op)],
                     i + 1, size, junk)

\* The literal branch: neither byte & 0x80 nor byte & 0x40.
LiteralOp(m0, byte, junk) ==
    LET base == BitAnd(byte, 31) + 1
        ext  == IF BitAnd(byte, 32) # 0 THEN Fetch(m0, junk) ELSE [val |-> 0, m |-> m0]
        size == base + Shl(ext.val, 5)
    IN  [m |-> LiteralLoop(ext.m, 0, size, junk), arg |-> ext.val, q |-> ext.m.ip]

\* ------------------------------------------------------------- LND: actions

NoOp ==
    [kind |-> "none", byte |-> 0, arg |-> 0, c |-> 0, q |-> 0, p |-> 0,
     pre |-> << >>]

\* The XP3 decoder does not run.
Xp3Idle ==
    /\ arc = [bytes |-> << >>, use_zlib |-> FALSE, table |-> << >>, filter |-> "none"]
    /\ arc_pos = 0
    /\ version = 0
    /\ table_offset = 0
    /\ table_io = << >>
    /\ table_pos = 0
    /\ pending = << >>
    /\ saved = << >>
    /\ filter_calls = << >>
    /\ attempted = << >>
    /\ err = "none"
    /\ xp3_pc = "idle"

\* The FSN filter does not run.
FsnIdle ==
    /\ file_size = 0
    /\ file_io = << >>
    /\ file_pos = 0
    /\ file_in = << >>
    /\ fsn_pc = "idle"

\* bstr output(size_orig); the four pointers set up (lines 12-17).
InitLnd ==
    /\ input \in SeqsUpTo(LndBytes, MaxInputLen)
    /\ size_orig \in 0 .. MaxSizeOrig
    /\ output = [i \in 0 .. size_orig - 1 |-> 0]
    /\ input_ptr = 0
    /\ output_ptr = 0
    /\ lnd_pc = "loop"
    /\ max_read = -1
    /\ min_back = 0
    /\ max_back = -1
    /\ max_write = -1
    /\ last = NoOp
    /\ Xp3Idle
    /\ FsnIdle

\* while (output_ptr < output_end && input_ptr < input_end)
LoopCond == output_ptr < size_orig /\ input_ptr < Len(input)

\* The registers written back after one loop iteration.
Commit(r, kind, byte) ==
    /\ output' = r.m.out
    /\ output_ptr' = r.m.op
    /\ input_ptr' = r.m.ip
    /\ max_read' = r.m.mr
    /\ min_back' = r.m.mb
    /\ max_back' = r.m.xb
    /\ max_write' = r.m.mw
    /\ last' = [kind |-> kind, byte |-> byte, arg |-> r.arg, c |-> input_ptr,
                q |-> r.q, p |-> output_ptr, pre |-> output]
    /\ UNCHANGED <<input, size_orig, lnd_pc>>
    /\ UNCHANGED <<xp3Vars, fsnVars>>

\* One loop iteration whose control byte has bits 7 and 6 set.
FillRun ==
    /\ lnd_pc = "loop" /\ LoopCond
    /\ \E junk \in OobBytes :
         LET f == Fetch(Regs, junk)
         IN  /\ BitAnd(f.val, 128) # 0 /\ BitAnd(f.val, 64) # 0
             /\ Commit(FillOp(f.m, f.val, junk), "fill", f.val)

\* One loop iteration whose control byte has bit 7 set and bit 6 clear.
BackReference ==
    /\ lnd_pc = "loop" /\ LoopCond
    /\ \E junk \in OobBytes :
         LET f == Fetch(Regs, junk)
         IN  /\ BitAnd(f.val, 128) # 0 /\ BitAnd(f.val, 64) = 0
             /\ Commit(CopyOp(f.m, f.val, junk), "copy", f.val)

\* One loop iteration whose control byte has bit 7 clear and bit 6 set.
AdditiveBlend ==
    /\ lnd_pc = "loop" /\ LoopCond
    /\ \E junk \in OobBytes :
         LET f == Fetch(Regs, junk)
         IN  /\ BitAnd(f.val, 128) = 0 /\ BitAnd(f.val, 64) # 0
             /\ Commit(BlendOp(f.m, f.val, junk), "blend", f.val)

\* One loop iteration whose control byte has bits 7 and 6 clear.
LiteralCopy ==
    /\ lnd_pc = "loop" /\ LoopCond
    /\ \E junk \in OobBytes :
         LET f == Fetch(Regs, junk)
         IN  /\ BitAnd(f.val, 128) = 0 /\ BitAnd(f.val, 64) = 0
             /\ Commit(LiteralOp(f.m, f.val, junk), "literal", f.val)

\* The loop condition fails: return output;
ReturnOutput ==
    /\ lnd_pc = "loop" /\ ~LoopCond
    /\ lnd_pc' = "done"
    /\ UNCHANGED <<input, size_orig, output, input_ptr, output_ptr,
                   max_read, min_back, max_back, max_write, last>>
    /\ UNCHANGED <<xp3Vars, fsnVars>>

NextLnd == FillRun \/ BackReference \/ AdditiveBlend \/ LiteralCopy \/ ReturnOutput

SpecLnd == InitLnd /\ [][NextLnd]_vars

\* =============================================== Xp3FilterFsn::decode (buffer)

\* size > 0x2ea29 : ptr[0x2ea29] ^= 3
FsnFarOffset == 191017

\* size > 0x13 : ptr[0x13] ^= 1
FsnNearOffset == 19

\* ptr[i] ^= 0x36, tabulated over the byte values.
Xor36 == [b \in 0 .. 255 |-> BitXor(b, 54)]

\* A decode whose far correction is one offset low, on buffers one byte shorter.
FsnByteFarOffByOne(size, i, b) ==
    LET x == Xor36[b]
        y == IF size >= FsnFarOffset /\ i = FsnFarOffset - 1 THEN BitXor(x, 3) ELSE x
    IN  IF size > FsnNearOffset /\ i = FsnNearOffset THEN BitXor(y, 1) ELSE y

\* What decode leaves at ptr[i] of a buffer of size bytes whose ptr[i] was b:
\* the loop's ^= 0x36, then the two corrections under their size tests.
FsnByte(size, i, b) ==
    LET x == Xor36[b]
        y == IF size > FsnFarOffset /\ i = FsnFarOffset THEN BitXor(x, 3) ELSE x
    IN  IF size > FsnNearOffset /\ i = FsnNearOffset THEN BitXor(y, 1) ELSE y

\* decode on a whole buffer held as a sequence (element i + 1 is ptr[i]).
FsnDecode(buf) == [i \in 1 .. Len(buf) |-> FsnByte(Len(buf), i - 1, buf[i])]

\* ================================================ XP3: the archive as bytes

\* static const bstr xp3_magic = "XP3\r\n\x20\x0A\x1A\x8B\x67\x01"
Xp3Magic == <<88, 80, 51, 13, 10, 32, 10, 26, 139, 103, 1>>

FileMagic == "File"

AdlrMagic == "adlr"

InfoMagic == "info"

SegmMagic == "segm"

RECURSIVE ToLE(_, _)
\* The w bytes of v, least significant first.
ToLE(v, w) == IF w = 0 THEN << >> ELSE <<v % 256>> \o ToLE(v \div 256, w - 1)

RECURSIVE ReadLE(_, _, _)
\* read_u32_le / read_u64_le: the w bytes at offset pos, least significant first.
ReadLE(bytes, pos, w) ==
    IF w = 0 THEN 0 ELSE bytes[pos + 1] + 256 * ReadLE(bytes, pos + 1, w - 1)

\* Where the pieces of a modelled archive lie: the 12 bytes after the magic
\* (an 8-byte offset, then 4 bytes), the additional header (1 + 8 + 8 bytes),
\* the stored entry data, the raw table.
AddHeaderAt == Len(Xp3Magic) + 12

BodyAt == AddHeaderAt + 17

TableAt == BodyAt + BodyLen

\* The stored entry data: BodyLen bytes.
Body == [i \in 1 .. BodyLen |-> (16 * i + 1) % 256]

\* The bytes of an archive before its table. b0 and b1 are the two low bytes
\* of the little-endian integer at offset 19; the integer is 1 only for b0 = 1,
\* b1 = 0, and then the 8 bytes before it hold the additional header's offset,
\* else the table's.
ArcBytes(b0, b1) ==
    Xp3Magic
        \o ToLE(IF b0 = 1 /\ b1 = 0 THEN AddHeaderAt ELSE TableAt, 8)
        \o <<b0, b1, 0, 0>>
        \o <<0>> \o ToLE(0, 8) \o ToLE(TableAt, 8)
        \o Body

\* ------------------------------------------------- XP3: the table's entries

\* The bytes an entry's chunks take in the table, as read_info_chunk,
\* read_data_from_segm_chunk and read_key_from_adlr_chunk consume them.
InfoBytes(e) == 4 + 8 + 4 + 8 + 8 + 2 + 2 * Len(e.name)

SegmBytes(e) == 4 + 8 + 28 * Len(e.segs)

AdlrBytes(e) == 4 + 8 + 4

EntryBytes(e) == 4 + 8 + InfoBytes(e) + SegmBytes(e) + AdlrBytes(e)

\* A segment record: flags, data offset, original size, compressed size.
RawSeg == [flags |-> 0, off |-> BodyAt, orig |-> 2, comp |-> 2]

ZlibSeg == [flags |-> 1, off |-> BodyAt + 1, orig |-> 5, comp |-> 3]

\* A well-formed entry: every tag right, every declared size the consumed one.
GoodEntry(name, segs, key) ==
    [ftag |-> FileMagic,
     fsize |-> 2 * Len(name) + 28 * Len(segs) + 62,
     itag |-> InfoMagic, name |-> name,
     stag |-> SegmMagic, ssize |-> 28 * Len(segs), segs |-> segs,
     atag |-> AdlrMagic, asize |-> 4, key |-> key]

\* An entry with one field corrupted.
Corrupt(e, defect) ==
    CASE defect = "ftag"  -> [e EXCEPT !.ftag = "Fole"]
      [] defect = "short" -> [e EXCEPT !.fsize = @ - 1]
      [] defect = "long"  -> [e EXCEPT !.fsize = @ + 1]
      [] defect = "itag"  -> [e EXCEPT !.itag = "inf0"]
      [] defect = "stag"  -> [e EXCEPT !.stag = "seg_"]
      [] defect = "ssize" -> [e EXCEPT !.ssize = @ + 1]
      [] defect = "atag"  -> [e EXCEPT !.atag = "ADLR"]
      [] defect = "asize" -> [e EXCEPT !.asize = 8]

Defects == {"ftag", "short", "long", "itag", "stag", "ssize", "atag", "asize"}

\* File names as UTF-16 code units: "a", and U+00E9.
Names == {<<97>>, <<233>>}

\* The entries tables are made of.
Entries ==
    {GoodEntry(n, sg, 5) : n \in Names, sg \in {<< >>, <<RawSeg>>, <<RawSeg, ZlibSeg>>}}
        \cup {Corrupt(GoodEntry(<<97>>, <<RawSeg>>, 5), d) : d \in Defects}

\* Where entry k of a table starts, in bytes.
RECURSIVE EntryStart(_, _)
EntryStart(table, k) ==
    IF k = 1 THEN 0 ELSE EntryStart(table, k - 1) + EntryBytes(table[k - 1])

\* table_io->size()
TableSize(table) == EntryStart(table, Len(table) + 1)

\* The entry that starts at byte pos of the table.
EntryAt(table, pos) == CHOOSE k \in 1 .. Len(table) : EntryStart(table, k) = pos

\* ------------------------------------------ XP3: collaborators outside src/

\* util::pack::zlib_inflate, as far as the decoder depends on it: the result
\* is some other byte string determined by the compressed one.
Inflate(data) == [i \in 1 .. 2 * Len(data) |-> U8(data[(i + 1) \div 2] + i)]

RECURSIVE Utf8(_)
\* util::convert_encoding(name, "utf-16le", "utf-8") on code units below 0x800.
Utf8(units) ==
    IF units = << >> THEN << >>
    ELSE LET u == Head(units)
         IN  (IF u < 128 THEN <<u>> ELSE <<192 + (u \div 64), 128 + (u % 64)>>)
                 \o Utf8(Tail(units))

\* arc_io.read(n) at offset pos.
ArcRead(bytes, pos, n) == [i \in 1 .. n |-> bytes[pos + i]]

\* -------------------------------------------------- XP3: the static functions

\* detect_version at cursor pos that does not seek back.
DetectVersionNoRestore(bytes, pos) ==
    [version |-> IF ReadLE(bytes, 19, 4) = 1 THEN 2 ELSE 1, pos |-> 19 + 4]

\* detect_version: the version and the cursor afterwards.
DetectVersion(bytes, pos) ==
    LET old_pos == pos
        probe   == ReadLE(bytes, 19, 4)
    IN  [version |-> IF probe = 1 THEN 2 ELSE 1, pos |-> old_pos]

\* get_table_offset: the error thrown, the offset returned, the cursor afterwards.
GetTableOffset(bytes, pos, ver) ==
    IF ver = 1
    THEN [err |-> "none", offset |-> ReadLE(bytes, pos, 8), pos |-> pos + 8]
    ELSE LET additional_header_offset == ReadLE(bytes, pos, 8)
             minor_version == ReadLE(bytes, pos + 8, 4)
         IN  IF minor_version # 1
             THEN [err |-> "CorruptData", offset |-> 0, pos |-> pos + 12]
             ELSE [err |-> "none",
                   offset |-> ReadLE(bytes, additional_header_offset + 1 + 8, 8),
                   pos |-> additional_header_offset + 1 + 8 + 8]

\* read_info_chunk at table cursor pos.
ReadInfoChunk(e, pos) ==
    IF e.itag # InfoMagic
    THEN [err |-> "CorruptData", pos |-> pos + 4, name |-> << >>]
    ELSE [err |-> "none",
          pos |-> pos + 4 + 8 + 4 + 8 + 8 + 2 + 2 * Len(e.name),
          name |-> Utf8(e.name)]

RECURSIVE SegmLoop(_, _, _, _, _, _, _)
\* while (segm_chunk_size > table_io.tell() - initial_pos) { ... }
SegmLoop(e, bytes, i, pos, initial_pos, apos, full_data) ==
    IF ~(e.ssize > pos - initial_pos) THEN [pos |-> pos, apos |-> apos, data |-> full_data]
    ELSE LET sg == e.segs[i]
             use_zlib == BitAnd(sg.flags, 7) > 0
             n == IF use_zlib THEN sg.comp ELSE sg.orig
             got == ArcRead(bytes, sg.off, n)
         IN  SegmLoop(e, bytes, i + 1, pos + 4 + 8 + 8 + 8, initial_pos, sg.off + n,
                      full_data \o (IF use_zlib THEN Inflate(got) ELSE got))

\* read_data_from_segm_chunk at table cursor pos, archive cursor apos.
ReadDataFromSegmChunk(e, bytes, pos, apos) ==
    IF e.stag # SegmMagic
    THEN [err |-> "CorruptData", pos |-> pos + 4, apos |-> apos, data |-> << >>]
    ELSE IF e.ssize % 28 # 0
    THEN [err |-> "CorruptData", pos |-> pos + 4 + 8, apos |-> apos, data |-> << >>]
    ELSE LET r == SegmLoop(e, bytes, 1, pos + 4 + 8, pos + 4 + 8, apos, << >>)
         IN  [err |-> "none", pos |-> r.pos, apos |-> r.apos, data |-> r.data]

\* read_key_from_adlr_chunk at table cursor pos.
ReadKeyFromAdlrChunk(e, pos) ==
    IF e.atag # AdlrMagic
    THEN [err |-> "CorruptData", pos |-> pos + 4, key |-> 0]
    ELSE IF e.asize # 4
    THEN [err |-> "CorruptData", pos |-> pos + 4 + 8, key |-> 0]
    ELSE [err |-> "none", pos |-> pos + 4 + 8 + 4, key |-> e.key]

\* The size check of read_file, accepting a File chunk declared too small.
SizeMismatchOnlyLonger(consumed, file_chunk_size) == consumed < file_chunk_size

\* if (table_io.tell() - file_chunk_start_offset != file_chunk_size) throw
SizeMismatch(consumed, file_chunk_size) == consumed # file_chunk_size

\* What read_file throws.
Thrown(pos, apos) ==
    [err |-> "CorruptData", pos |-> pos, apos |-> apos, filtered |-> FALSE,
     file |-> << >>]

\* read_file on entry e at table cursor pos, archive cursor apos, with the
\* decoder's filter: the error thrown or the file returned, and the cursors.
ReadFileOf(e, bytes, pos, apos, filter) ==
    IF e.ftag # FileMagic THEN Thrown(pos + 4, apos)
    ELSE
    LET file_chunk_size == e.fsize
        file_chunk_start_offset == pos + 4 + 8
        info == ReadInfoChunk(e, file_chunk_start_offset)
    IN  IF info.err # "none" THEN Thrown(info.pos, apos)
        ELSE
        LET segm == ReadDataFromSegmChunk(e, bytes, info.pos, apos)
        IN  IF segm.err # "none" THEN Thrown(segm.pos, segm.apos)
            ELSE
            LET adlr == ReadKeyFromAdlrChunk(e, segm.pos)
            IN  IF adlr.err # "none" THEN Thrown(adlr.pos, segm.apos)
                ELSE IF SizeMismatch(adlr.pos - file_chunk_start_offset, file_chunk_size)
                THEN Thrown(adlr.pos, segm.apos)
                ELSE [err |-> "none", pos |-> adlr.pos, apos |-> segm.apos,
                      filtered |-> filter # "none",
                      file |-> [name |-> info.name,
                                data |-> IF filter # "none"
                                         THEN FsnDecode(segm.data) ELSE segm.data]]

\* ------------------------------------------------------------- XP3: actions

\* The LND decompressor does not run.
LndIdle ==
    /\ input = << >>
    /\ size_orig = 0
    /\ output = << >>
    /\ input_ptr = 0
    /\ output_ptr = 0
    /\ lnd_pc = "idle"
    /\ max_read = -1
    /\ min_back = 0
    /\ max_back = -1
    /\ max_write = -1
    /\ last = NoOp

\* unpack_internal is entered with the archive's cursor at its start.
InitXp3 ==
    /\ \E b0 \in {0, 1, 2}, b1 \in {0, 1}, z \in BOOLEAN, f \in {"none", "fsn"},
          t \in SeqsUpTo(Entries, MaxEntries) :
          arc = [bytes |-> ArcBytes(b0, b1), use_zlib |-> z, table |-> t, filter |-> f]
    /\ arc_pos = 0
    /\ version = 0
    /\ table_offset = 0
    /\ table_io = << >>
    /\ table_pos = 0
    /\ pending = << >>
    /\ saved = << >>
    /\ filter_calls = << >>
    /\ attempted = << >>
    /\ err = "none"
    /\ xp3_pc = "skip_magic"
    /\ LndIdle
    /\ FsnIdle

\* arc_file.io.skip(xp3_magic.size());
SkipMagic ==
    /\ xp3_pc = "skip_magic"
    /\ arc_pos' = arc_pos + Len(Xp3Magic)
    /\ xp3_pc' = "detect_version"
    /\ UNCHANGED <<arc, version, table_offset, table_io, table_pos, pending, saved,
                   filter_calls, attempted, err>>
    /\ UNCHANGED <<lndVars, fsnVars>>

\* int version = detect_version(arc_file.io);
DetectVersionStep ==
    /\ xp3_pc = "detect_version"
    /\ LET r == DetectVersion(arc.bytes, arc_pos)
       IN  /\ version' = r.version
           /\ arc_pos' = r.pos
    /\ xp3_pc' = "get_table_offset"
    /\ UNCHANGED <<arc, table_offset, table_io, table_pos, pending, saved,
                   filter_calls, attempted, err>>
    /\ UNCHANGED <<lndVars, fsnVars>>

\* u64 table_offset = get_table_offset(arc_file.io, version);
GetTableOffsetStep ==
    /\ xp3_pc = "get_table_offset"
    /\ LET r == GetTableOffset(arc.bytes, arc_pos, version)
       IN  /\ table_offset' = r.offset
           /\ arc_pos' = r.pos
           /\ err' = r.err
           /\ xp3_pc' = IF r.err = "none" THEN "read_raw_table" ELSE "failed"
    /\ UNCHANGED <<arc, version, table_io, table_pos, pending, saved,
                   filter_calls, attempted>>
    /\ UNCHANGED <<lndVars, fsnVars>>

\* arc_file.io.seek(table_offset); auto table_io = read_raw_table(arc_file.io);
\* then the filter is set up (lines 200-201).  The raw table holds the flag,
\* the compressed size, with zlib the original size, and the table's bytes.
\* The modelled archives hold their table at TableAt and nothing readable as
\* a table elsewhere.
ReadRawTable ==
    /\ xp3_pc = "read_raw_table"
    /\ table_offset = TableAt
    /\ table_io' = arc.table
    /\ table_pos' = 0
    /\ arc_pos' = table_offset + 1 + 8 + (IF arc.use_zlib THEN 8 ELSE 0)
                      + TableSize(arc.table)
    /\ xp3_pc' = "loop"
    /\ UNCHANGED <<arc, version, table_offset, pending, saved, filter_calls,
                   attempted, err>>
    /\ UNCHANGED <<lndVars, fsnVars>>

\* A loop body that steps over an entry read_file rejects and carries on.
ReadFileSkipCorrupt ==
    /\ xp3_pc = "loop"
    /\ table_pos < TableSize(table_io)
    /\ LET k == EntryAt(table_io, table_pos)
           r == ReadFileOf(table_io[k], arc.bytes, table_pos, arc_pos, arc.filter)
       IN  /\ attempted' = Append(attempted, k)
           /\ table_pos' = IF r.err = "none" THEN r.pos
                           ELSE table_pos + EntryBytes(table_io[k])
           /\ arc_pos' = r.apos
           /\ err' = "none"
           /\ filter_calls' = IF r.filtered THEN Append(filter_calls, k) ELSE filter_calls
           /\ pending' = IF r.err = "none" THEN <<[idx |-> k, file |-> r.file]>> ELSE << >>
           /\ xp3_pc' = IF r.err = "none" THEN "save" ELSE "loop"
    /\ UNCHANGED <<arc, version, table_offset, table_io, saved>>
    /\ UNCHANGED <<lndVars, fsnVars>>

\* while (table_io->tell() < table_io->size())
\*     ... read_file(arc_file.io, *table_io, filter.decoder) ...
ReadFile ==
    /\ xp3_pc = "loop"
    /\ table_pos < TableSize(table_io)
    /\ LET k == EntryAt(table_io, table_pos)
           r == ReadFileOf(table_io[k], arc.bytes, table_pos, arc_pos, arc.filter)
       IN  /\ attempted' = Append(attempted, k)
           /\ table_pos' = r.pos
           /\ arc_pos' = r.apos
           /\ err' = r.err
           /\ filter_calls' = IF r.filtered THEN Append(filter_calls, k) ELSE filter_calls
           /\ pending' = IF r.err = "none" THEN <<[idx |-> k, file |-> r.file]>> ELSE << >>
           /\ xp3_pc' = IF r.err = "none" THEN "save" ELSE "failed"
    /\ UNCHANGED <<arc, version, table_offset, table_io, saved>>
    /\ UNCHANGED <<lndVars, fsnVars>>

\* saver.save(<the file read_file returned>);
Save ==
    /\ xp3_pc = "save"
    /\ saved' = Append(saved, pending[1])
    /\ pending' = << >>
    /\ xp3_pc' = "loop"
    /\ UNCHANGED <<arc, arc_pos, version, table_offset, table_io, table_pos,
                   filter_calls, attempted, err>>
    /\ UNCHANGED <<lndVars, fsnVars>>

\* The loop condition fails: unpack_internal returns.
Finish ==
    /\ xp3_pc = "loop"
    /\ ~(table_pos < TableSize(table_io))
    /\ xp3_pc' = "done"
    /\ UNCHANGED <<arc, arc_pos, version, table_offset, table_io, table_pos,
                   pending, saved, filter_calls, attempted, err>>
    /\ UNCHANGED <<lndVars, fsnVars>>

NextXp3 ==
    SkipMagic \/ DetectVersionStep \/ GetTableOffsetStep \/ ReadRawTable
        \/ ReadFile \/ Save \/ Finish

SpecXp3 == InitXp3 /\ [][NextXp3]_vars

\* ============================================ Xp3FilterFsn::decode: actions

\* The lengths of the files decoded: around each of the two offsets.
FsnSizes ==
    {0, 1, FsnNearOffset, FsnNearOffset + 1, FsnNearOffset + 2,
     FsnFarOffset, FsnFarOffset + 1, FsnFarOffset + 7}

\* The offsets a file is held at: all of 0 .. 0x15, and 0x2EA27 .. 0x2EA2F.
\* Decode treats every other offset as it treats 0: line 13 alone touches it.
Watched(size) ==
    {o \in (0 .. FsnNearOffset + 2) \cup (FsnFarOffset - 2 .. FsnFarOffset + 6) : o < size}

\* The contents of the files decoded: the byte at offset o is (a * o + b) mod 256.
FsnPatterns == {<<0, 0>>, <<0, 54>>, <<0, 255>>, <<0, 53>>,
                <<1, 0>>, <<1, 54>>, <<1, 255>>, <<1, 53>>}

\* decode is entered on a file.
InitFsn ==
    /\ file_size \in FsnSizes
    /\ \E pt \in FsnPatterns :
          file_io = [o \in Watched(file_size) |-> (pt[1] * o + pt[2]) % 256]
    /\ file_in = file_io
    /\ file_pos \in {0, file_size}
    /\ fsn_pc = "decode"
    /\ LndIdle
    /\ Xp3Idle

\* The whole of decode: size = file.io.size(); read size bytes from offset 0,
\* transform them, write size bytes back from offset 0.
Decode ==
    /\ fsn_pc = "decode"
    /\ LET size == file_size
       IN  /\ file_io' = [o \in DOMAIN file_io |-> FsnByte(size, o, file_io[o])]
           /\ file_size' = Max(file_size, 0 + size)
           /\ file_pos' = 0 + size
    /\ fsn_pc' = "done"
    /\ UNCHANGED file_in
    /\ UNCHANGED <<lndVars, xp3Vars>>

NextFsn == Decode

SpecFsn == InitFsn /\ [][NextFsn]_vars

\* ================================================================= claims
\* ---------------------------------------------------- LND decompressor

\* Parameters of the last decoded operation, as the format defines them.
FillRunLength ==
    BitAnd(last.byte, 31) + 2
        + (IF BitAnd(last.byte, 32) # 0 THEN Shl(last.arg, 5) ELSE 0)

CopyLength == BitAnd(Shr(last.byte, 2), 15) + 2

CopyDistance == Shl(BitAnd(last.byte, 3), 8) + last.arg + 1

BlendBlock == BitAnd(last.byte, 63) + 2

BlendRepeats == last.arg + 1

\* Room left in the output when the last operation started.
Room == size_orig - last.p

\* The operand byte (extension, distance, repeat count) was inside the input.
OperandInside == last.c + 1 < Len(input)

\* Output bytes outside p .. output_ptr-1 are as they were before the operation.
RestUntouched ==
    \A i \in DOMAIN output :
        (i < last.p \/ i >= output_ptr) => output[i] = last.pre[i]

\* C1: every input byte the decompressor dereferences has an index strictly
\* below the input length, also when the final operation is truncated.
C1_NoReadPastInput == max_read < Len(input)

\* C2: every output byte written has an index below size_orig, the buffer is
\* never extended and the output position never exceeds size_orig.
C2_NoWritePastOutput ==
    /\ max_write < size_orig
    /\ output_ptr <= size_orig
    /\ DOMAIN output = 0 .. size_orig - 1

\* An operation of each kind that the output-full check cut short.
C2_Witness ==
    /\ last.kind = "copy"
    /\ Room < CopyLength
    /\ output_ptr = size_orig
    /\ max_write = size_orig - 1

\* The operation's operand and its whole block-size window were inside the input.
BlendInside == OperandInside /\ last.q + BlendBlock <= Len(input)

\* C3 as stated (for a blend whose operand and window are inside the input):
\* the repeats of an additive blend overlay the same span of block-size bytes,
\* the output position advances by the block size once, and the input position
\* advances by the block size once.
C3_BlendSameSpan ==
    (last.kind = "blend" /\ BlendInside) =>
        /\ output_ptr = last.p + Min(BlendBlock, Room)
        /\ input_ptr = last.q + BlendBlock
        /\ \A i \in 0 .. Min(BlendBlock, Room) - 1 :
               last.q + i < Len(input) =>
                   output[last.p + i] =
                       U8(last.pre[last.p + i] + BlendRepeats * input[last.q + i + 1])

\* C3 amended: every repeat adds the window onto the NEXT block-size span: the
\* k-th byte written by the operation is output[p + k] += window[k mod block],
\* the output position advances by min(repeats * block, room), and the input
\* position advances by the block size once, after the whole operation.
C3_BlendSuccessiveSpans ==
    last.kind = "blend" =>
        /\ OperandInside => last.arg = input[last.c + 2]
        /\ output_ptr = last.p + Min(BlendRepeats * BlendBlock, Room)
        /\ input_ptr = last.q + BlendBlock
        /\ last.q = last.c + 2
        /\ \A k \in 0 .. Min(BlendRepeats * BlendBlock, Room) - 1 :
               last.q + (k % BlendBlock) < Len(input) =>
                   output[last.p + k] =
                       U8(last.pre[last.p + k] + input[last.q + (k % BlendBlock) + 1])
        /\ RestUntouched

\* A blend of two repeats whose window lies inside the input and whose two
\* spans both fit the output.
C3_Witness ==
    /\ last.kind = "blend"
    /\ BlendRepeats = 2
    /\ BlendInside
    /\ Room >= 2 * BlendBlock
    /\ input[last.q + 1] # 0
    /\ output_ptr = last.p + 2 * BlendBlock

\* The general part of C4: with p >= d and room for the whole copy, the byte
\* written at p + i is the byte at p + i - d, bytes written earlier in the same
\* operation included.
CopyOverlap ==
    (last.kind = "copy" /\ last.p >= CopyDistance /\ Room >= CopyLength) =>
        /\ OperandInside => last.arg = input[last.c + 2]
        /\ output_ptr = last.p + CopyLength
        /\ input_ptr = last.c + 2
        /\ \A i \in 0 .. CopyLength - 1 :
               output[last.p + i] = output[last.p + i - CopyDistance]
        /\ RestUntouched

\* Output "AB" so far, then a back-reference of distance 1 and length 4 whose
\* distance byte is inside the input.
CopyExample ==
    /\ last.kind = "copy"
    /\ OperandInside
    /\ last.p = 2
    /\ last.pre[0] = 65 /\ last.pre[1] = 66
    /\ CopyDistance = 1
    /\ CopyLength = 4
    /\ Room >= 4

\* The bytes produced so far.
Produced == [i \in 1 .. output_ptr |-> output[i - 1]]

\* C4 as stated: the overlapping copy, and "AB" with distance 1 and length 4
\* yields "ABBBB".
C4_CopyYieldsABBBB ==
    /\ CopyOverlap
    /\ CopyExample => Produced = <<65, 66, 66, 66, 66>>

\* C4 amended: the overlapping copy, and "AB" with distance 1 and length 4
\* yields "ABBBBB": the two bytes present followed by four copies of 'B'.
C4_CopyYieldsABBBBB ==
    /\ CopyOverlap
    /\ CopyExample => Produced = <<65, 66, 66, 66, 66, 66>>

C4_Witness == CopyExample /\ output_ptr = 6

C10_BackRefInsideOutput == min_back >= 0 /\ max_back < size_orig

\* --------------------------------------------------- XP3 archive decoder

\* The info, segm and adlr sub-chunks of an entry parse: tags and sizes right.
SubChunksParse(e) ==
    /\ e.ftag = "File"
    /\ e.itag = "info"
    /\ e.stag = "segm" /\ e.ssize % 28 = 0
    /\ e.atag = "adlr" /\ e.asize = 4

\* The table bytes the three sub-chunks of an entry take.
SubChunkSpan(e) == (12 + 22 + 2 * Len(e.name)) + (12 + e.ssize) + (12 + 4)

\* The entries the sink was given.
SavedIdx == {saved[i].idx : i \in 1 .. Len(saved)}

FilteredIdx == {filter_calls[i] : i \in 1 .. Len(filter_calls)}

\* C6: read_file fails with CorruptData whenever the File chunk's declared
\* length differs from the bytes its info, segm and adlr sub-chunks consume;
\* the filter is then not applied to the entry and the entry is not saved.
C6_EntrySizeExact ==
    \A i \in 1 .. Len(attempted) :
        LET e == table_io[attempted[i]]
        IN  (SubChunksParse(e) /\ e.fsize # SubChunkSpan(e)) =>
                /\ xp3_pc = "failed"
                /\ err = "CorruptData"
                /\ i = Len(attempted)
                /\ pending = << >>
                /\ attempted[i] \notin SavedIdx
                /\ attempted[i] \notin FilteredIdx

\* The second entry declares one byte less than its sub-chunks take, the
\* decoder has a filter, and the first entry was filtered and saved.
C6_Witness ==
    /\ Len(attempted) = 2
    /\ SubChunksParse(table_io[2])
    /\ table_io[2].fsize = SubChunkSpan(table_io[2]) - 1
    /\ arc.filter = "fsn"
    /\ FilteredIdx = {1}
    /\ SavedIdx = {1}
    /\ xp3_pc = "failed"

\* The little-endian integer at absolute offset 19.
Probe == ReadLE(arc.bytes, 19, 4)

\* The minor-version field: 4 bytes after the 8-byte offset that follows the magic.
MinorVersion == ReadLE(arc.bytes, Len(Xp3Magic) + 8, 4)

Detected == xp3_pc \notin {"idle", "skip_magic", "detect_version"}

OffsetTried == Detected /\ xp3_pc # "get_table_offset"

\* C7: the archive is version 2 exactly when the integer at offset 19 is 1;
\* detection leaves the cursor where it was (after the magic); a version 2
\* archive has its table offset resolved, through the additional header, only
\* with minor version 1, and any other minor version fails with CorruptData
\* with no table read and nothing saved; version 1 reads the offset directly.
C7_VersionDetection ==
    /\ Detected => version = (IF Probe = 1 THEN 2 ELSE 1)
    /\ xp3_pc = "get_table_offset" => arc_pos = Len(Xp3Magic)
    /\ (OffsetTried /\ version = 1) =>
           /\ table_offset = ReadLE(arc.bytes, Len(Xp3Magic), 8)
           /\ (xp3_pc = "read_raw_table" => arc_pos = Len(Xp3Magic) + 8)
    /\ (OffsetTried /\ version = 2 /\ MinorVersion = 1) =>
           /\ table_offset =
                  ReadLE(arc.bytes, ReadLE(arc.bytes, Len(Xp3Magic), 8) + 9, 8)
           /\ (xp3_pc = "failed" => attempted # << >>)
    /\ (OffsetTried /\ version = 2 /\ MinorVersion # 1) =>
           /\ xp3_pc = "failed" /\ err = "CorruptData"
           /\ table_io = << >> /\ attempted = << >> /\ saved = << >>

\* A version 2 archive whose table offset was read from its additional header.
C7_Witness ==
    /\ xp3_pc = "read_raw_table"
    /\ Probe = 1
    /\ version = 2
    /\ ReadLE(arc.bytes, Len(Xp3Magic), 8) = AddHeaderAt
    /\ table_offset = TableAt
    /\ arc_pos = AddHeaderAt + 17

\* What holds of the sink in every state: it was given entries 1, 2, ... in
\* that order, each after read_file parsed, size-checked and filtered it; a
\* finished unpack gave it every entry; a failed one gave it exactly the
\* entries before the failing one.
SinkState ==
    /\ \A i \in 1 .. Len(saved) :
           /\ saved[i].idx = i
           /\ i <= Len(attempted) /\ attempted[i] = i
           /\ SubChunksParse(table_io[i])
           /\ table_io[i].fsize = SubChunkSpan(table_io[i])
           /\ arc.filter # "none" => i \in FilteredIdx
           /\ saved[i].file.name = Utf8(table_io[i].name)
    /\ pending # << >> => (xp3_pc = "save" /\ pending[1].idx = Len(saved) + 1)
    /\ xp3_pc = "done" => (Len(saved) = Len(table_io) /\ err = "none")
    /\ (xp3_pc = "failed" /\ attempted # << >>) =>
           LET k == Len(attempted)
           IN  /\ attempted[k] = k
               /\ err = "CorruptData"
               /\ Len(saved) = k - 1
               /\ pending = << >>

\* What holds of every step: the sink's files are only ever appended to, one
\* at a time, and after a failure nothing runs.
SinkStep ==
    /\ \/ saved' = saved
       \/ xp3_pc = "save" /\ Len(saved') = Len(saved) + 1
              /\ SubSeq(saved', 1, Len(saved)) = saved
    /\ xp3_pc = "failed" => UNCHANGED vars

\* C8: save is called once per table entry, in table order, each call after
\* the entry is parsed, size-checked and filtered; when the k-th entry fails
\* with CorruptData the unpack aborts with exactly the first k-1 entries
\* saved, none rolled back, and no later entry saved or skipped over.
C8_SaveOncePerEntryInOrder == [](SinkState) /\ [][SinkStep]_vars

\* The second entry failed after the first was saved.
C8_Witness ==
    /\ xp3_pc = "failed"
    /\ err = "CorruptData"
    /\ Len(attempted) = 2
    /\ Len(table_io) = 2
    /\ SavedIdx = {1}

\* ------------------------------------------------------------- FSN filter

\* The length decode was called on.
SizeIn == IF fsn_pc = "decode" THEN file_size ELSE file_pos

====
